---- MODULE Spec2Model ----
(***************************************************************************)
(* Boundary trust layer of the games SDK: the event validator, the         *)
(* fire-and-forget event emitter with its rate limiter, the session        *)
(* driver and the lifecycle gate.                                          *)
(*                                                                         *)
(* JavaScript values are tagged records.  A finite number is kept in       *)
(* halves (h = 3 is 1.5) so that non-integers and out-of-range proportions *)
(* exist; NaN and the infinities are separate kinds of number.  Clock      *)
(* readings (Date.now(), nowMs()) are plain integers of milliseconds.      *)
(***************************************************************************)
EXTENDS Integers, Sequences, FiniteSets, TLC

(***************************************************************************)
(* Bounds of the model.                                                    *)
(***************************************************************************)
\* Ceiling of checkRateLimit.  The source sets 50 (defaults.ts:346); the code
\* only ever compares eventsInWindow with the constant, so the limiter is
\* checked at a small ceiling.
MAX_EVENTS_PER_SECOND == 2
\* The clock advances in steps of this many milliseconds.
ClockStep == 500
\* Clock steps per behaviour.
MaxTicks == 2
\* Emit calls per behaviour.
MaxCalls == 4
\* Registered handlers per emitter.
MaxHandlers == 2

(***************************************************************************)
(* JavaScript values                                                       *)
(***************************************************************************)
Undefined == [t |-> "undefined"]
Null == [t |-> "null"]
Str(s) == [t |-> "string", s |-> s]
Num(h) == [t |-> "number", k |-> "fin", h |-> h]
Whole(i) == Num(2 * i)
NaN == [t |-> "number", k |-> "nan"]
PosInf == [t |-> "number", k |-> "pinf"]
NegInf == [t |-> "number", k |-> "ninf"]
Obj(f) == [t |-> "object", f |-> f]
\* An opaque JSON value (a state blob) whose serialization has `bytes` bytes.
Blob(bytes) == [t |-> "blob", bytes |-> bytes]
\* A value JSON.stringify throws on (a cycle).
Circular == [t |-> "circular"]

IsObject(v) == v.t \in {"object", "blob", "circular"}
IsNumber(v) == v.t = "number"
IsString(v) == v.t = "string"
IsFinite(v) == IsNumber(v) /\ v.k = "fin"
IsInteger(v) == IsFinite(v) /\ v.h % 2 = 0
\* v < i and v > i for a number v and an integer i, as JavaScript compares
\* them: every comparison with NaN is false.
NumLt(v, i) == \/ v.k = "ninf"
               \/ v.k = "fin" /\ v.h < 2 * i
NumGt(v, i) == \/ v.k = "pinf"
               \/ v.k = "fin" /\ v.h > 2 * i
\* 'name' in e, and e[name], of an event object.
HasKey(e, name) == e.t = "object" /\ name \in DOMAIN e.f
Get(e, name) == IF HasKey(e, name) THEN e.f[name] ELSE Undefined
\* array.includes(v) for an array of strings.
Includes(strings, v) == IsString(v) /\ v.s \in strings

(***************************************************************************)
(* Branded-type guards (types/branded)                                     *)
(***************************************************************************)
isValidDifficulty(v) == IsInteger(v) /\ ~NumLt(v, 1) /\ ~NumGt(v, 10)
isValidSessionId(v) == IsString(v) /\ Len(v.s) > 0
isValidLevelId(v) == IsString(v) /\ Len(v.s) > 0
isValidDuration(v) == IsInteger(v) /\ ~NumLt(v, 0)
isValidTimestamp(v) == IsInteger(v) /\ ~NumLt(v, 0)
\* createTimestamp(value) and createDuration(value) return the value given, or
\* throw: TRUE when the call throws.
createTimestampThrows(v) == ~IsNumber(v) \/ ~IsInteger(v) \/ NumLt(v, 0)
createDurationThrows(v) == ~IsNumber(v) \/ ~IsInteger(v) \/ NumLt(v, 0)

(***************************************************************************)
(* Sizes (events/event-validators)                                         *)
(***************************************************************************)
MAX_STATE_BLOB_SIZE == 1024 * 1024
MAX_EVENT_SIZE == 64 * 1024

Digits == <<"0", "1", "2", "3", "4", "5", "6", "7", "8", "9">>
RECURSIVE DecStr(_)
DecStr(n) == IF n < 10 THEN Digits[n + 1]
             ELSE DecStr(n \div 10) \o Digits[(n % 10) + 1]
\* String(v) of a number.
JsString(v) ==
    IF v.k = "nan" THEN "NaN"
    ELSE IF v.k = "pinf" THEN "Infinity"
    ELSE IF v.k = "ninf" THEN "-Infinity"
    ELSE LET a == IF v.h < 0 THEN 0 - v.h ELSE v.h
         IN (IF v.h < 0 THEN "-" ELSE "") \o DecStr(a \div 2)
            \o (IF a % 2 = 1 THEN ".5" ELSE "")

\* Length of JSON.stringify(v) for a value that is not an object; 0 for a value
\* JSON leaves out.
ScalarSize(v) ==
    CASE v.t = "undefined" -> 0
      [] v.t = "null" -> 4
      [] v.t = "string" -> Len(v.s) + 2
      [] v.t = "number" -> IF v.k = "fin" THEN Len(JsString(v)) ELSE 4
      [] v.t = "blob" -> v.bytes
      [] OTHER -> 0
RECURSIVE MembersSize(_, _)
MembersSize(f, keys) ==
    IF keys = {} THEN 0
    ELSE LET k == CHOOSE x \in keys : TRUE
         IN Len(k) + 3 + ScalarSize(f[k]) + MembersSize(f, keys \ {k})
\* estimateSize: the JSON size in bytes, or MAX_EVENT_SIZE + 1 when the value
\* cannot be serialized.
estimateSize(v) ==
    IF v.t = "circular" THEN MAX_EVENT_SIZE + 1
    ELSE IF v.t = "object"
    THEN LET present == {k \in DOMAIN v.f : v.f[k] # Undefined}
         IN IF \E k \in present : v.f[k].t = "circular"
            THEN MAX_EVENT_SIZE + 1
            ELSE 2 + MembersSize(v.f, present)
                   + (IF present = {} THEN 0 ELSE Cardinality(present) - 1)
    ELSE ScalarSize(v)

(***************************************************************************)
(* Clamping helpers                                                        *)
(***************************************************************************)
NotClamped == [defined |-> FALSE]
clampOptionalOvershoot(value, min, max) ==
    IF ~IsFinite(value) THEN NotClamped
    ELSE LET lo == 2 * min
             hi == 2 * max
             moved == IF value.h > hi THEN value.h - 1
                      ELSE IF value.h < lo THEN value.h + 1 ELSE value.h
         IN [defined |-> TRUE, value |-> Num(moved), clamped |-> moved # value.h]
clampOptional(value, min, max) ==
    IF ~IsFinite(value) THEN NotClamped
    ELSE LET lo == 2 * min
             hi == 2 * max
             upper == IF value.h < hi THEN value.h ELSE hi
             clamped == IF upper > lo THEN upper ELSE lo
         IN [defined |-> TRUE, value |-> Num(clamped), clamped |-> clamped # value.h]
clampNonNegative(value) ==
    IF ~IsFinite(value) THEN NotClamped
    ELSE LET clamped == IF value.h > 0 THEN value.h ELSE 0
         IN [defined |-> TRUE, value |-> Num(clamped), clamped |-> clamped # value.h]

(***************************************************************************)
(* Validation results                                                      *)
(***************************************************************************)
Rejected(errors, warnings) ==
    [threw |-> FALSE, valid |-> FALSE, errors |-> errors, warnings |-> warnings]
Accepted(event, warnings) ==
    [threw |-> FALSE, valid |-> TRUE, event |-> event, errors |-> <<>>,
     warnings |-> warnings]
\* validateEvent left by an exception.
Thrown(name) == [threw |-> TRUE, error |-> name]
\* errors.push(msg) when bad.
PushIf(bad, errors, msg) == IF bad THEN Append(errors, msg) ELSE errors
\* The common tail of a validator that does not clean: reject with the errors
\* collected, or accept the event as given.
Conclude(event, errors) ==
    IF Len(errors) > 0 THEN Rejected(errors, <<>>) ELSE Accepted(event, <<>>)

(***************************************************************************)
(* Per-kind validators                                                     *)
(***************************************************************************)
validateSessionStarted(e) ==
    Conclude(e, PushIf(~isValidSessionId(Get(e, "sessionId")), <<>>,
                       "sessionId must be a non-empty string"))

validateSessionEnded(e) ==
    LET e1 == PushIf(~isValidSessionId(Get(e, "sessionId")), <<>>,
                     "sessionId must be a non-empty string")
        e2 == PushIf(~Includes({"completed", "user_exit", "timeout"}, Get(e, "reason")),
                     e1, "reason must be one of: completed, user_exit, timeout")
        e3 == PushIf(~isValidDuration(Get(e, "totalDurationMs")), e2,
                     "totalDurationMs must be a non-negative integer")
    IN Conclude(e, e3)

validateSessionAborted(e) ==
    LET e1 == PushIf(~isValidSessionId(Get(e, "sessionId")), <<>>,
                     "sessionId must be a non-empty string")
        e2 == PushIf(~Includes({"crash", "force_close", "platform_termination",
                                "network_error"}, Get(e, "reason")), e1,
                     "reason must be one of: crash, force_close, platform_termination, network_error")
        e3 == PushIf(~isValidDuration(Get(e, "durationBeforeAbortMs")), e2,
                     "durationBeforeAbortMs must be a non-negative integer")
    IN Conclude(e, e3)

\* typeof v !== 'number' || v < i
NotNumberOrBelow(v, i) == ~IsNumber(v) \/ NumLt(v, i)

validateLevelStarted(e) ==
    LET e1 == PushIf(~isValidLevelId(Get(e, "levelId")), <<>>,
                     "levelId must be a non-empty string")
        e2 == PushIf(NotNumberOrBelow(Get(e, "attemptNumber"), 1), e1,
                     "attemptNumber must be a positive integer")
        e3 == PushIf(~isValidDifficulty(Get(e, "difficulty")), e2,
                     "difficulty must be an integer between 1 and 10")
    IN Conclude(e, e3)

validateLevelCompleted(e) ==
    LET e1 == PushIf(~isValidLevelId(Get(e, "levelId")), <<>>,
                     "levelId must be a non-empty string")
        e2 == PushIf(NotNumberOrBelow(Get(e, "attemptNumber"), 1), e1,
                     "attemptNumber must be a positive integer")
        e3 == PushIf(~isValidDuration(Get(e, "durationMs")), e2,
                     "durationMs must be a non-negative integer")
        e4 == PushIf(~isValidDifficulty(Get(e, "difficulty")), e3,
                     "difficulty must be an integer between 1 and 10")
    IN Conclude(e, e4)

validateLevelFailed(e) ==
    LET e1 == PushIf(~isValidLevelId(Get(e, "levelId")), <<>>,
                     "levelId must be a non-empty string")
        e2 == PushIf(NotNumberOrBelow(Get(e, "attemptNumber"), 1), e1,
                     "attemptNumber must be a positive integer")
        e3 == PushIf(~isValidDuration(Get(e, "durationMs")), e2,
                     "durationMs must be a non-negative integer")
        e4 == PushIf(~isValidDifficulty(Get(e, "difficulty")), e3,
                     "difficulty must be an integer between 1 and 10")
        e5 == PushIf(/\ Get(e, "failureReason") # Undefined
                     /\ ~Includes({"timeout", "too_many_errors", "user_quit", "other"},
                                  Get(e, "failureReason")), e4,
                     "failureReason must be one of: timeout, too_many_errors, user_quit, other")
    IN Conclude(e, e5)

validateCheckpointReached(e) ==
    LET cp == Get(e, "checkpointId")
        e1 == PushIf(~isValidLevelId(Get(e, "levelId")), <<>>,
                     "levelId must be a non-empty string")
        e2 == PushIf(~IsString(cp) \/ Len(cp.s) = 0, e1,
                     "checkpointId must be a non-empty string")
        e3 == PushIf(~isValidDuration(Get(e, "elapsedMs")), e2,
                     "elapsedMs must be a non-negative integer")
    IN Conclude(e, e3)

validateActiveTimeReported(e) ==
    LET e1 == PushIf(~isValidDuration(Get(e, "activeDurationMs")), <<>>,
                     "activeDurationMs must be a non-negative integer")
        e2 == PushIf(/\ Get(e, "idleDurationMs") # Undefined
                     /\ ~isValidDuration(Get(e, "idleDurationMs")), e1,
                     "idleDurationMs must be a non-negative integer")
        e3 == PushIf(/\ Get(e, "pausesCount") # Undefined
                     /\ NotNumberOrBelow(Get(e, "pausesCount"), 0), e2,
                     "pausesCount must be a non-negative number")
    IN Conclude(e, e3)

validateFrictionReported(e) ==
    LET e1 == PushIf(~isValidDifficulty(Get(e, "claimedDifficulty")), <<>>,
                     "claimedDifficulty must be an integer between 1 and 10")
        e2 == PushIf(~Includes({"memory", "focus", "speed", "regulation", "planning",
                                "mixed"}, Get(e, "cognitiveLoadType")), e1,
                     "cognitiveLoadType must be one of: memory, focus, speed, regulation, planning, mixed")
    IN Conclude(e, e2)

validateErrorMade(e) ==
    Conclude(e, PushIf(~Includes({"wrong_input", "timeout", "rule_violation",
                                  "missed_target", "wrong_selection", "sequence_break"},
                                 Get(e, "errorType")), <<>>,
                       "errorType must be one of: wrong_input, timeout, rule_violation, missed_target, wrong_selection, sequence_break"))

validateFailureOccurred(e) ==
    Conclude(e, PushIf(~Includes({"error_threshold", "time_expired", "resource_depleted",
                                  "invalid_state"}, Get(e, "failureType")), <<>>,
                       "failureType must be one of: error_threshold, time_expired, resource_depleted, invalid_state"))

validateSaveGameState(e) ==
    LET blobSize == estimateSize(Get(e, "stateBlob"))
        e1 == IF ~HasKey(e, "stateBlob") THEN <<"stateBlob is required">>
              ELSE PushIf(blobSize > MAX_STATE_BLOB_SIZE, <<>>,
                          "stateBlob exceeds size limit (" \o DecStr(blobSize) \o " > "
                              \o DecStr(MAX_STATE_BLOB_SIZE) \o ")")
        e2 == PushIf(NotNumberOrBelow(Get(e, "schemaVersion"), 1), e1,
                     "schemaVersion must be a positive integer")
    IN Conclude(e, e2)

validateDevLog(e) ==
    LET e1 == PushIf(~IsString(Get(e, "message")), <<>>, "message must be a string")
        e2 == PushIf(/\ Get(e, "level") # Undefined
                     /\ ~Includes({"debug", "info", "warn", "error"}, Get(e, "level")),
                     e1, "level must be one of: debug, info, warn, error")
    IN Conclude(e, e2)

\* cleanedEvent[name] = v and delete cleanedEvent[name].
SetField(e, name, v) ==
    Obj([k \in DOMAIN e.f \cup {name} |-> IF k = name THEN v ELSE e.f[k]])
DeleteField(e, name) == Obj([k \in DOMAIN e.f \ {name} |-> e.f[k]])

\* One "clamp 0-1" block of validatePerformanceReported, on the errors, warnings
\* and cleaned event collected so far.
ClampUnitField(acc, e, name) ==
    IF Get(e, name) = Undefined THEN acc
    ELSE LET result == clampOptional(Get(e, name), 0, 1)
         IN IF ~result.defined
            THEN [acc EXCEPT !.errors = Append(@, name \o " must be a number")]
            ELSE [acc EXCEPT
                    !.cleaned = SetField(@, name, result.value),
                    !.warnings = IF result.clamped
                                 THEN Append(@, name \o " clamped to "
                                                \o JsString(result.value))
                                 ELSE @]
\* One "non-negative" block of validatePerformanceReported: clamps, records no
\* warning.
ClampCountField(acc, e, name) ==
    IF Get(e, name) = Undefined THEN acc
    ELSE LET result == clampNonNegative(Get(e, name))
         IN IF ~result.defined
            THEN [acc EXCEPT !.errors = Append(@, name \o " must be a number")]
            ELSE [acc EXCEPT !.cleaned = SetField(@, name, result.value)]

validatePerformanceReported(e) ==
    LET a0 == [errors |-> <<>>, warnings |-> <<>>, cleaned |-> e]
        a1 == ClampUnitField(a0, e, "accuracy")
        a2 == ClampUnitField(a1, e, "successRate")
        a3 == ClampCountField(a2, e, "reactionTimeMs")
        a4 == ClampCountField(a3, e, "errorCount")
        a5 == ClampCountField(a4, e, "hintsUsed")
        a6 == ClampCountField(a5, e, "streakLength")
    IN IF Len(a6.errors) > 0 THEN Rejected(a6.errors, a6.warnings)
       ELSE Accepted(a6.cleaned, a6.warnings)

validateUserSignal(e) ==
    LET errors == PushIf(~Includes({"felt_easy", "felt_hard", "felt_stressed",
                                    "felt_calm", "wants_more", "wants_stop", "enjoying",
                                    "frustrated"}, Get(e, "signalType")), <<>>,
                         "signalType must be one of: felt_easy, felt_hard, felt_stressed, felt_calm, wants_more, wants_stop, enjoying, frustrated")
        result == clampOptional(Get(e, "value"), 0, 1)
        cleaned == IF Get(e, "value") = Undefined THEN e
                   ELSE IF ~result.defined THEN DeleteField(e, "value")
                   ELSE SetField(e, "value", result.value)
        warnings == IF Get(e, "value") = Undefined THEN <<>>
                    ELSE IF ~result.defined THEN <<"value was not a valid number, omitted">>
                    ELSE IF result.clamped
                    THEN <<"value clamped to " \o JsString(result.value)>>
                    ELSE <<>>
    IN IF Len(errors) > 0 THEN Rejected(errors, warnings)
       ELSE Accepted(cleaned, warnings)

(***************************************************************************)
(* validateEvent                                                           *)
(***************************************************************************)
ValidationModes == {"development", "production"}
\* The kinds validateEvent dispatches on.
EventKinds == {"SESSION_STARTED", "SESSION_ENDED", "SESSION_ABORTED", "LEVEL_STARTED",
               "LEVEL_COMPLETED", "LEVEL_FAILED", "CHECKPOINT_REACHED",
               "PERFORMANCE_REPORTED", "ACTIVE_TIME_REPORTED", "FRICTION_REPORTED",
               "ERROR_MADE", "FAILURE_OCCURRED", "SAVE_GAME_STATE", "USER_SIGNAL",
               "DEV_LOG"}

unknownEventTypeThrows(eventType, mode) == Thrown("UnknownEventTypeError")
\* The default branch of the switch.
unknownEventType(eventType, mode) ==
    IF mode = "development" THEN Thrown("UnknownEventTypeError")
    ELSE Rejected(<<"Unknown event type: " \o eventType>>, <<>>)

dispatchNothing(eventType, event, mode) == unknownEventType(eventType, mode)
\* switch (eventType): the validator of the kind, or the default branch.
dispatch(eventType, event, mode) ==
    CASE eventType = "SESSION_STARTED" -> validateSessionStarted(event)
      [] eventType = "SESSION_ENDED" -> validateSessionEnded(event)
      [] eventType = "SESSION_ABORTED" -> validateSessionAborted(event)
      [] eventType = "LEVEL_STARTED" -> validateLevelStarted(event)
      [] eventType = "LEVEL_COMPLETED" -> validateLevelCompleted(event)
      [] eventType = "LEVEL_FAILED" -> validateLevelFailed(event)
      [] eventType = "CHECKPOINT_REACHED" -> validateCheckpointReached(event)
      [] eventType = "PERFORMANCE_REPORTED" -> validatePerformanceReported(event)
      [] eventType = "ACTIVE_TIME_REPORTED" -> validateActiveTimeReported(event)
      [] eventType = "FRICTION_REPORTED" -> validateFrictionReported(event)
      [] eventType = "ERROR_MADE" -> validateErrorMade(event)
      [] eventType = "FAILURE_OCCURRED" -> validateFailureOccurred(event)
      [] eventType = "SAVE_GAME_STATE" -> validateSaveGameState(event)
      [] eventType = "USER_SIGNAL" -> validateUserSignal(event)
      [] eventType = "DEV_LOG" -> validateDevLog(event)
      [] OTHER -> unknownEventType(eventType, mode)

validateEvent(event, mode) ==
    IF event.t # "object"
    THEN Rejected(<<"Event must be an object">>, <<>>)
    ELSE IF ~HasKey(event, "type") \/ ~IsString(Get(event, "type"))
    THEN Rejected(<<"Event must have a string type field">>, <<>>)
    ELSE LET eventType == Get(event, "type").s
             eventSize == estimateSize(event)
         IN IF eventSize > MAX_EVENT_SIZE
            THEN Rejected(<<"Event exceeds size limit (" \o DecStr(eventSize) \o " > "
                              \o DecStr(MAX_EVENT_SIZE) \o ")">>, <<>>)
            ELSE dispatch(eventType, event, mode)

(***************************************************************************)
(* State: the event emitter (events/event-emitter), the session driver and *)
(* the gate                                                                *)
(***************************************************************************)
VARIABLES
    mode,                  \* config.mode
    handlers,              \* config.handlers, each named by its place
    now,                   \* the reading of Date.now()
    eventCount,
    droppedCount,
    rateLimitWindowStart,
    eventsInWindow,
    calls,                 \* emit calls made so far
    last,                  \* what the last call (of any component) did
    recentAdmissions,      \* times of the calls admitted in (now - window, now]
                           \* since the last resetRateLimiter()
    discarded,             \* production-mode calls that passed the rate check
                           \* with a DEV_LOG event or with null
    deliveredInWindow      \* emit calls delivered to the handlers since the
                           \* current window began

emitterVars == <<mode, handlers, now, eventCount, droppedCount, rateLimitWindowStart,
                 eventsInWindow, calls, recentAdmissions, discarded, deliveredInWindow>>

\* The session driver (platform/session).
VARIABLES
    currentState,
    sessionId,
    startTime,
    sessionDurationMs,
    listeners,             \* the subscribed listeners, in subscription order
    observed,              \* for each listener, the snapshot states it was handed
    recorded               \* the id given to the startSession that started the
                           \* session, the clock reading during it, and the
                           \* reading during the call that ended the session

driverVars == <<currentState, sessionId, startTime, sessionDurationMs, listeners,
                observed, recorded>>

\* The options of the lifecycle gate (platform/eventGate).
VARIABLES
    onEventDropped,        \* whether options.onEventDropped was given
    allowDevLogAfterEnd    \* options.allowDevLogAfterEnd, false when left out

gateVars == <<onEventDropped, allowDevLogAfterEnd>>

\* The capability guard (core/capability-guard) and the host that created it.
VARIABLES
    declaredCapabilities,  \* the array the host passed as config.declaredCapabilities
    declaredSet            \* the guard's own Set, built when it was created

guardVars == <<declaredCapabilities, declaredSet>>

RATE_LIMIT_WINDOW_MS == 1000
GameId == "memory-match"
SdkVersion == "0.1.0"

\* What the registered handlers do during one emit call: for each handler,
\* whether its invocation throws.
HandlerBehaviours == [1..MaxHandlers -> BOOLEAN]

\* The values a guest passes to emit.
LevelStarted == Obj([type |-> Str("LEVEL_STARTED"), levelId |-> Str("level-1"),
                     attemptNumber |-> Whole(1), difficulty |-> Whole(3)])
LevelStartedBad == Obj([type |-> Str("LEVEL_STARTED"), levelId |-> Str(""),
                        attemptNumber |-> Whole(1), difficulty |-> Whole(3)])
PerformanceHigh == Obj([type |-> Str("PERFORMANCE_REPORTED"), accuracy |-> Num(3)])
SessionStarted == Obj([type |-> Str("SESSION_STARTED"), sessionId |-> Str("s1")])
DevLog == Obj([type |-> Str("DEV_LOG"), message |-> Str("hi")])
DevLogBad == Obj([type |-> Str("DEV_LOG"), level |-> Str("loud")])
UnknownKind == Obj([type |-> Str("TELEPORTED")])
NoType == Obj([message |-> Str("hi")])
EmitInputs == {Null, UnknownKind, LevelStarted, LevelStartedBad, PerformanceHigh, DevLog}
\* The values getSessionId() returns.
SessionIdReadings == {Undefined, Str("s1")}

(***************************************************************************)
(* Event emitter: emit                                                     *)
(***************************************************************************)
\* checkRateLimit with the ceiling tested one too late.
checkRateLimitOffByOne(windowStart, inWindow, t) ==
    LET expired == t - windowStart >= RATE_LIMIT_WINDOW_MS
        start == IF expired THEN t ELSE windowStart
        count == IF expired THEN 0 ELSE inWindow
    IN IF count > MAX_EVENTS_PER_SECOND
       THEN [allowed |-> FALSE, windowStart |-> start, inWindow |-> count]
       ELSE [allowed |-> TRUE, windowStart |-> start, inWindow |-> count + 1]

\* checkRateLimit on the window state (start, count) at clock reading t: whether
\* the call is allowed, and the window state it leaves.
checkRateLimit(windowStart, inWindow, t) ==
    LET expired == t - windowStart >= RATE_LIMIT_WINDOW_MS
        start == IF expired THEN t ELSE windowStart
        count == IF expired THEN 0 ELSE inWindow
    IN IF count >= MAX_EVENTS_PER_SECOND
       THEN [allowed |-> FALSE, windowStart |-> start, inWindow |-> count]
       ELSE [allowed |-> TRUE, windowStart |-> start, inWindow |-> count + 1]

\* Reading event.type throws a TypeError for null and undefined.
TypeReadThrows(event) == event.t \in {"null", "undefined"}
IsDevLogOrSessionStarted(event) ==
    Get(event, "type") \in {Str("DEV_LOG"), Str("SESSION_STARTED")}
IsDevLog(event) == Get(event, "type") = Str("DEV_LOG")

\* What one emit call does after the rate check: the counter increments, whether
\* the call was left by an exception, and the handler invocations in order.
Outcome(verdict, dropped, counted, threw, deliveries) ==
    [verdict |-> verdict, dropped |-> dropped, counted |-> counted, threw |-> threw,
     deliveries |-> deliveries]

\* The rate-limited branch: count the drop, then warn in development, which
\* reads event.type.
rateLimited(event, m) ==
    Outcome("rate_limited", 1, 0, m = "development" /\ TypeReadThrows(event), <<>>)

\* The enriched event.
enrich(cleaned, sid, t) ==
    IF sid # Undefined
    THEN [event |-> cleaned, timestamp |-> t, sessionId |-> sid, gameId |-> GameId,
          sdkVersion |-> SdkVersion]
    ELSE [event |-> cleaned, timestamp |-> t, gameId |-> GameId,
          sdkVersion |-> SdkVersion]

\* The handler loop without its try/catch: it ends at the first handler that
\* throws.
fanOutStopsAtThrow(hs, throws, emitted) ==
    LET bad == {i \in 1..Len(hs) : throws[i]}
        n == IF bad = {} THEN Len(hs) ELSE CHOOSE i \in bad : \A j \in bad : i <= j
    IN [i \in 1..n |-> [handler |-> hs[i], event |-> emitted, threw |-> throws[i]]]

\* The handler loop: every handler is called with the enriched event, and what
\* it throws is caught.
fanOut(hs, throws, emitted) ==
    [i \in 1..Len(hs) |-> [handler |-> hs[i], event |-> emitted, threw |-> throws[i]]]

\* deliver handing the handlers the event as the guest passed it.
deliverRaw(event, result, sid, hs, throws, t) ==
    Outcome("delivered", 0, 1, FALSE, fanOut(hs, throws, enrich(event, sid, t)))

\* The branch after validation succeeded: enrich, fan out, count.
deliver(event, result, sid, hs, throws, t) ==
    IF createTimestampThrows(Whole(t))
    THEN Outcome("timestamp_threw", 0, 0, TRUE, <<>>)
    ELSE Outcome("delivered", 0, 1, FALSE,
                 fanOut(hs, throws, enrich(IF "event" \in DOMAIN result THEN result.event
                                   ELSE event, sid, t)))

\* The catch around validateEvent without its droppedCount++.
validatorThrewUncounted == Outcome("validator_threw", 0, 0, FALSE, <<>>)
\* The production DEV_LOG skip counted as a drop.
devLogSkippedCounted == Outcome("dev_log_skipped", 1, 0, FALSE, <<>>)

\* The branch after validateEvent threw, and after it returned invalid.
validatorThrew == Outcome("validator_threw", 1, 0, FALSE, <<>>)
invalidEvent == Outcome("invalid", 1, 0, FALSE, <<>>)
\* The production DEV_LOG skip.
devLogSkipped == Outcome("dev_log_skipped", 0, 0, FALSE, <<>>)

\* The skip test never taken.
skipsDevLogNever(event, m) == FALSE

\* The test of the production DEV_LOG skip; reading event.type may throw.
skipsDevLog(event, m) == m = "production" /\ IsDevLog(event)

\* emit after checkRateLimit allowed the call.
admittedEmit(event, sid, m, hs, throws, t) ==
    IF m = "production" /\ TypeReadThrows(event)
    THEN Outcome("type_error", 0, 0, TRUE, <<>>)
    ELSE IF skipsDevLog(event, m) THEN devLogSkipped
    ELSE LET result == validateEvent(event, m)
         IN IF result.threw THEN validatorThrew
            ELSE IF ~result.valid THEN invalidEvent
            ELSE deliver(event, result, sid, hs, throws, t)

(***************************************************************************)
(* Event emitter: actions                                                  *)
(***************************************************************************)
NoCall == [op |-> "none"]

\* createEventEmitter(config) with config.mode = m, at clock reading 0.
EmitterCreated(m) ==
    /\ mode = m
    /\ handlers = [i \in 1..MaxHandlers |-> i]
    /\ now = 0
    /\ eventCount = 0
    /\ droppedCount = 0
    /\ rateLimitWindowStart = 0
    /\ eventsInWindow = 0
    /\ calls = 0
    /\ recentAdmissions = <<>>
    /\ discarded = 0
    /\ deliveredInWindow = 0

\* The calls emit makes that its caller does not control: what getSessionId()
\* returns and which handlers throw.  They are reached only when the event is
\* delivered.
Surroundings == [sid : SessionIdReadings, throws : HandlerBehaviours]
Quiet == [sid |-> Undefined, throws |-> [i \in 1..MaxHandlers |-> FALSE]]

\* emit with the budget charged at delivery: a call that passed the rate check
\* and was not delivered gives its place in the window back.
emitChargesAtDelivery(event, env, m, hs, windowStart, inWindow, t) ==
    LET limit == checkRateLimit(windowStart, inWindow, t)
        out == IF limit.allowed
               THEN admittedEmit(event, env.sid, m, hs, env.throws, t)
               ELSE rateLimited(event, m)
    IN [limit |-> IF limit.allowed /\ out.verdict # "delivered"
                  THEN [limit EXCEPT !.inWindow = @ - 1] ELSE limit,
        out |-> out]

\* The whole of emit(event) at clock reading t, on the window state given: the
\* window state it leaves and its outcome.
emit(event, env, m, hs, windowStart, inWindow, t) ==
    LET limit == checkRateLimit(windowStart, inWindow, t)
    IN [limit |-> limit,
        out |-> IF limit.allowed
                THEN admittedEmit(event, env.sid, m, hs, env.throws, t)
                ELSE rateLimited(event, m)]

Emit(event) ==
    /\ calls < MaxCalls
    /\ \E env \in IF emit(event, Quiet, mode, handlers, rateLimitWindowStart,
                          eventsInWindow, now).out.verdict = "delivered"
                  THEN Surroundings ELSE {Quiet} :
         \E done \in {emit(event, env, mode, handlers, rateLimitWindowStart,
                           eventsInWindow, now)} :
            /\ rateLimitWindowStart' = done.limit.windowStart
            /\ eventsInWindow' = done.limit.inWindow
            /\ droppedCount' = droppedCount + done.out.dropped
            /\ eventCount' = eventCount + done.out.counted
            /\ recentAdmissions' = IF done.limit.allowed
                                   THEN Append(recentAdmissions, now)
                                   ELSE recentAdmissions
            /\ last' = [op |-> "emit", arg |-> event, allowed |-> done.limit.allowed,
                        verdict |-> done.out.verdict, threw |-> done.out.threw,
                        sid |-> env.sid, deliveries |-> done.out.deliveries]
            /\ discarded' = IF /\ done.limit.allowed
                                /\ mode = "production"
                                /\ (TypeReadThrows(event) \/ IsDevLog(event))
                             THEN discarded + 1 ELSE discarded
            /\ deliveredInWindow' =
                  (IF done.limit.windowStart # rateLimitWindowStart THEN 0
                   ELSE deliveredInWindow)
                  + (IF done.out.verdict = "delivered" THEN 1 ELSE 0)
    /\ calls' = calls + 1
    /\ UNCHANGED <<mode, handlers, now>>
    /\ UNCHANGED <<driverVars, gateVars, guardVars>>

\* resetRateLimiter().
ResetRateLimiter ==
    /\ rateLimitWindowStart' = now
    /\ eventsInWindow' = 0
    /\ recentAdmissions' = <<>>
    /\ deliveredInWindow' = 0
    /\ UNCHANGED <<mode, handlers, now, eventCount, droppedCount, calls, last,
                   discarded>>
    /\ UNCHANGED <<driverVars, gateVars, guardVars>>

\* Time passes between calls.
Tick ==
    /\ now + ClockStep <= MaxTicks * ClockStep
    /\ now' = now + ClockStep
    /\ recentAdmissions' =
           SelectSeq(recentAdmissions, LAMBDA t : t > now' - RATE_LIMIT_WINDOW_MS)
    /\ UNCHANGED <<mode, handlers, eventCount, droppedCount, rateLimitWindowStart,
                   eventsInWindow, calls, last, discarded, deliveredInWindow>>
    /\ UNCHANGED <<driverVars, gateVars, guardVars>>

(***************************************************************************)
(* Session driver (platform/session): snapshots                            *)
(***************************************************************************)

\* Listeners a host may subscribe.
MaxListeners == 2
Listeners == 1..MaxListeners
\* Session ids a host starts sessions with.
SessionIds == {Str("s1"), Str("s2")}
\* What the injected clock nowMs() returns: any number, in any order.
NowReadings == {Whole(0), Whole(100)}
\* The reasons a host gives; the driver does not read them.
SessionEndReasons == {"completed", "timeout"}
SessionAbortReasons == {"crash", "network_error"}

\* a - b of two finite numbers.
Minus(a, b) == Num(a.h - b.h)

\* createContextSnapshot on the driver state given: the frozen context, or the
\* exception.  The fields every context copies from the configuration
\* (metadata, preferences) are left out.
ContextThrown == [threw |-> TRUE]
Context(ctx) == [threw |-> FALSE, ctx |-> ctx]
createContextSnapshot(state, sid, start, duration) ==
    CASE state = "INITIAL" -> Context([state |-> "INITIAL"])
      [] state = "IN_SESSION" ->
            IF sid = Undefined \/ start = Undefined THEN ContextThrown
            ELSE IF createTimestampThrows(start) THEN ContextThrown
            ELSE Context([state |-> "IN_SESSION", sessionId |-> sid, startTime |-> start])
      [] state = "ENDED" ->
            IF sid = Undefined \/ duration = Undefined THEN ContextThrown
            ELSE IF createDurationThrows(duration) THEN ContextThrown
            ELSE Context([state |-> "ENDED", sessionId |-> sid,
                          sessionDurationMs |-> duration])

(***************************************************************************)
(* Session driver: operations                                              *)
(*                                                                         *)
(* A listener runs inside the transition that notifies it and may call the *)
(* driver itself, so one call of the host is evaluated as a whole, on a    *)
(* record of the call in progress:                                         *)
(*   d        the driver's mutable state                                   *)
(*   clock    what nowMs() returns during the call                         *)
(*   cursors  for each `for (const listener of listeners)` loop that is    *)
(*            running, outermost first, the entries of the Set it passed   *)
(*   made     the transitions that wrote the state, in order, each with    *)
(*            the Set at that moment and the snapshot created for it       *)
(*   notified the listener invocations, in order                           *)
(*   joined   the listeners subscribe was called with during the call      *)
(*   left     the listeners whose unsubscribe function was called          *)
(*   threw    whether the operation just evaluated threw                   *)
(***************************************************************************)
\* The driver's mutable state as one record.
Driver == [currentState |-> currentState, sessionId |-> sessionId,
           startTime |-> startTime, sessionDurationMs |-> sessionDurationMs,
           listeners |-> listeners]
\* The arguments of the transitions made: none yet.
NothingGiven == [id |-> Undefined, t0 |-> Undefined, t1 |-> Undefined]
\* A call of the host begins, during which nowMs() returns reading.
Call(d, reading) ==
    [d |-> d, clock |-> reading, cursors |-> <<>>, made |-> <<>>, notified |-> <<>>,
     joined |-> {}, left |-> {}, threw |-> FALSE, given |-> NothingGiven]

\* What a listener does when it is invoked.
Reactions == {"return", "throw", "startSession", "endSession", "abortSession",
              "subscribe", "unsubscribe"}
\* The session id a listener starts a session with, and the listener a listener
\* subscribes.
ListenerSessionId == Str("s2")
Other(l) == (l % MaxListeners) + 1

\* listeners.add(l) and listeners.delete(l) on a Set kept in insertion order.
SetAdd(ls, l) == IF \E i \in 1..Len(ls) : ls[i] = l THEN ls ELSE Append(ls, l)
SetDelete(ls, l) == SelectSeq(ls, LAMBDA x : x # l)
\* The place of l in the Set, 0 when it is not in it.
Place(ls, l) == IF \E i \in 1..Len(ls) : ls[i] = l
                THEN CHOOSE i \in 1..Len(ls) : ls[i] = l ELSE 0

\* The cursors of the running loops after the entry at place p was deleted.
RECURSIVE Passing(_, _)
Passing(cursors, p) ==
    IF cursors = <<>> THEN <<>>
    ELSE <<IF Head(cursors) >= p THEN Head(cursors) - 1 ELSE Head(cursors)>>
         \o Passing(Tail(cursors), p)

\* subscribe(listener) and the function it returned, on the call in progress.  A
\* running loop that has passed the deleted entry has one entry less behind it.
subscribe(run, l) ==
    [run EXCEPT !.d.listeners = SetAdd(@, l), !.joined = @ \cup {l}, !.threw = FALSE]
unsubscribe(run, l) ==
    LET p == Place(run.d.listeners, l)
    IN [run EXCEPT
          !.d.listeners = SetDelete(@, l),
          !.left = @ \cup {l},
          !.cursors = IF p > 0 THEN Passing(@, p) ELSE @,
          !.threw = FALSE]

\* A driver call that threw before it changed anything.
Refused(run) == [run EXCEPT !.threw = TRUE]

RECURSIVE notifyListeners(_, _)
RECURSIVE visit(_, _, _, _)
RECURSIVE react(_, _, _)
RECURSIVE startSession(_, _, _, _)
RECURSIVE endSession(_, _, _, _)
RECURSIVE abortSession(_, _, _, _)

\* The tail of a transition: the write is recorded, then notifyListeners runs on
\* the state just written.
Notified(run, op, throws) ==
    LET snap == createContextSnapshot(run.d.currentState, run.d.sessionId,
                                      run.d.startTime, run.d.sessionDurationMs)
    IN notifyListeners([run EXCEPT
                          !.made = Append(@, [op |-> op,
                                              state |-> run.d.currentState,
                                              subscribed |-> run.d.listeners,
                                              snapshot |-> IF snap.threw THEN <<>>
                                                           ELSE <<snap.ctx>>])],
                       throws)

\* notifyListeners: the snapshot is created once, outside the try, and handed to
\* every listener of the Set; what a listener throws is caught.
notifyListeners(run, throws) ==
    LET snap == createContextSnapshot(run.d.currentState, run.d.sessionId,
                                      run.d.startTime, run.d.sessionDurationMs)
    IN IF snap.threw THEN [run EXCEPT !.threw = TRUE]
       ELSE [visit([run EXCEPT !.cursors = Append(@, 0)], snap.ctx, Len(run.made),
                   throws)
             EXCEPT !.threw = FALSE]

\* The loop of notifyListeners without its try/catch: the first listener that
\* throws ends it.
visitUncaught(run, ctx, of, throws) ==
    LET top == Len(run.cursors)
        c == run.cursors[top]
    IN IF c >= Len(run.d.listeners)
       THEN [run EXCEPT !.cursors = SubSeq(@, 1, top - 1)]
       ELSE LET l == run.d.listeners[c + 1]
                called == [run EXCEPT
                             !.cursors[top] = c + 1,
                             !.notified = Append(@, [listener |-> l, ctx |-> ctx,
                                                     of |-> of, threw |-> FALSE])]
                at == Len(called.notified)
                back == react(called, l, throws)
            IN IF back.threw
               THEN [back EXCEPT !.notified[at].threw = TRUE,
                                 !.cursors = SubSeq(@, 1, top - 1)]
               ELSE visit(back, ctx, of, throws)

\* The loop of notifyListeners from where its cursor stands: the Set is iterated
\* live, so an entry deleted before the loop reaches it is skipped and an entry
\* added during the loop is visited.
visit(run, ctx, of, throws) ==
    LET top == Len(run.cursors)
        c == run.cursors[top]
    IN IF c >= Len(run.d.listeners)
       THEN [run EXCEPT !.cursors = SubSeq(@, 1, top - 1)]
       ELSE LET l == run.d.listeners[c + 1]
                called == [run EXCEPT
                             !.cursors[top] = c + 1,
                             !.notified = Append(@, [listener |-> l, ctx |-> ctx,
                                                     of |-> of, threw |-> FALSE])]
                at == Len(called.notified)
                back == react(called, l, throws)
            IN visit([back EXCEPT !.notified[at].threw = back.threw], ctx, of, throws)

\* listener(ctx): the listener returns, throws, or calls the driver; an exception
\* of the call it makes leaves the listener too.
react(run, l, throws) ==
    CASE throws[l] = "throw" -> [run EXCEPT !.threw = TRUE]
      [] throws[l] = "startSession" ->
            startSession(run, ListenerSessionId, run.clock, throws)
      [] throws[l] = "endSession" -> endSession(run, "completed", run.clock, throws)
      [] throws[l] = "abortSession" -> abortSession(run, "crash", run.clock, throws)
      [] throws[l] = "subscribe" -> subscribe(run, Other(l))
      [] throws[l] = "unsubscribe" -> unsubscribe(run, l)
      [] OTHER -> [run EXCEPT !.threw = FALSE]

\* startSession refusing only a session that is running.
startSessionAfterEnd(run, sid, reading, throws) ==
    IF run.d.currentState = "IN_SESSION" THEN Refused(run)
    ELSE Notified([run EXCEPT !.d.sessionId = sid, !.d.startTime = reading,
                              !.d.currentState = "IN_SESSION",
                              !.given.id = sid, !.given.t0 = reading],
                  "startSession", throws)

\* startSession(sid), during which nowMs() returns reading.
startSession(run, sid, reading, throws) ==
    IF run.d.currentState # "INITIAL" THEN Refused(run)
    ELSE Notified([run EXCEPT !.d.sessionId = sid, !.d.startTime = reading,
                              !.d.currentState = "IN_SESSION",
                              !.given.id = sid, !.given.t0 = reading],
                  "startSession", throws)

\* endSession storing the clock reading instead of the time elapsed.
endSessionStoresReading(run, reason, reading, throws) ==
    IF run.d.currentState # "IN_SESSION" THEN Refused(run)
    ELSE Notified([run EXCEPT !.d.sessionDurationMs = reading,
                              !.d.currentState = "ENDED",
                              !.given.t1 = reading], "endSession", throws)

\* endSession(reason), during which nowMs() returns reading.
endSession(run, reason, reading, throws) ==
    IF run.d.currentState # "IN_SESSION" THEN Refused(run)
    ELSE Notified([run EXCEPT
                     !.d.sessionDurationMs =
                         Minus(reading, IF run.d.startTime = Undefined THEN Whole(0)
                                        ELSE run.d.startTime),
                     !.d.currentState = "ENDED",
                     !.given.t1 = reading], "endSession", throws)

\* abortSession(reason), during which nowMs() returns reading.
abortSession(run, reason, reading, throws) ==
    IF run.d.currentState # "IN_SESSION" THEN Refused(run)
    ELSE Notified([run EXCEPT
                     !.d.sessionDurationMs =
                         Minus(reading, IF run.d.startTime = Undefined THEN Whole(0)
                                        ELSE run.d.startTime),
                     !.d.currentState = "ENDED",
                     !.given.t1 = reading], "abortSession", throws)

\* createSessionDriver(config).
DriverCreated ==
    /\ currentState = "INITIAL"
    /\ sessionId = Undefined
    /\ startTime = Undefined
    /\ sessionDurationMs = Undefined
    /\ listeners = <<>>
    /\ observed = [l \in Listeners |-> <<>>]
    /\ recorded = NothingGiven

\* What the listeners do during one call of the host: for each, its reaction.
\* With nobody subscribed nobody is invoked.
ListenerBehaviours ==
    IF listeners = <<>> THEN {[l \in Listeners |-> "return"]}
    ELSE [Listeners -> Reactions]

\* The snapshot states each listener has been handed, in order.
Observing(seen, notified) ==
    [l \in Listeners |->
        seen[l] \o [i \in 1..Len(SelectSeq(notified, LAMBDA n : n.listener = l)) |->
                       SelectSeq(notified, LAMBDA n : n.listener = l)[i].ctx.state]]

\* A driver call took place: the driver state and the record of the call.
DriverCall(op, done) ==
    /\ currentState' = done.d.currentState
    /\ sessionId' = done.d.sessionId
    /\ startTime' = done.d.startTime
    /\ sessionDurationMs' = done.d.sessionDurationMs
    /\ listeners' = done.d.listeners
    /\ observed' = Observing(observed, done.notified)
    /\ recorded' = [f \in DOMAIN recorded |->
                       IF done.given[f] # Undefined THEN done.given[f] ELSE recorded[f]]
    /\ last' = [op |-> op, before |-> Driver, threw |-> done.threw,
                made |-> done.made, notified |-> done.notified,
                joined |-> done.joined, left |-> done.left]
    /\ UNCHANGED <<emitterVars, gateVars, guardVars>>

StartSession(sid, reading, throws) ==
    \E done \in {startSession(Call(Driver, reading), sid, reading, throws)} :
        DriverCall("startSession", done)

EndSession(reason, reading, throws) ==
    \E done \in {endSession(Call(Driver, reading), reason, reading, throws)} :
        DriverCall("endSession", done)

AbortSession(reason, reading, throws) ==
    \E done \in {abortSession(Call(Driver, reading), reason, reading, throws)} :
        DriverCall("abortSession", done)

\* subscribe(listener), called by the host.
Subscribe(l) ==
    /\ listeners' = subscribe(Call(Driver, Whole(0)), l).d.listeners
    /\ last' = [op |-> "subscribe", listener |-> l]
    /\ UNCHANGED <<currentState, sessionId, startTime, sessionDurationMs, observed,
                   recorded>>
    /\ UNCHANGED <<emitterVars, gateVars, guardVars>>

\* The function subscribe(listener) returned, called by the host.
Unsubscribe(l) ==
    /\ listeners' = unsubscribe(Call(Driver, Whole(0)), l).d.listeners
    /\ last' = [op |-> "unsubscribe", listener |-> l, before |-> Driver]
    /\ UNCHANGED <<currentState, sessionId, startTime, sessionDurationMs, observed,
                   recorded>>
    /\ UNCHANGED <<emitterVars, gateVars, guardVars>>

\* getContext(), called by the host.
GetContext ==
    /\ \E snap \in {createContextSnapshot(currentState, sessionId, startTime,
                                          sessionDurationMs)} :
          last' = [op |-> "getContext", before |-> Driver, threw |-> snap.threw,
                   returned |-> IF snap.threw THEN <<>> ELSE <<snap.ctx>>]
    /\ UNCHANGED <<emitterVars, driverVars, gateVars, guardVars>>

\* isSessionActive(), called by the host.
isSessionActive(state) == state = "IN_SESSION"
IsSessionActive ==
    /\ last' = [op |-> "isSessionActive", before |-> Driver,
                returned |-> isSessionActive(currentState)]
    /\ UNCHANGED <<emitterVars, driverVars, gateVars, guardVars>>

(***************************************************************************)
(* Event lifecycle gate (platform/eventGate)                               *)
(***************************************************************************)

\* The values a game passes to the gated emit.
SessionStartedOther == Obj([type |-> Str("SESSION_STARTED"), sessionId |-> Str("s2")])
\* A diagnostic event that carries a session id, and an event whose sessionId is
\* not a string.
DevLogOther == Obj([type |-> Str("DEV_LOG"), sessionId |-> Str("s2")])
LevelNumericSession == Obj([type |-> Str("LEVEL_STARTED"), sessionId |-> Whole(42)])
GateInputs == {Null, Whole(42), DevLog, DevLogOther, LevelStarted, LevelNumericSession,
               SessionStarted, SessionStartedOther}
\* What the host's callbacks do during one call: whether platformEmit throws and
\* whether onEventDropped throws.
CallbackBehaviours == [platformEmit : BOOLEAN, onEventDropped : BOOLEAN]

\* `${event.type}` and `${v}` of a string or missing value.
Text(v) == IF IsString(v) THEN v.s ELSE "undefined"
\* 'sessionId' in event throws a TypeError unless event is an object.
InThrows(event) == ~IsObject(event)
hasSessionId(event) == HasKey(event, "sessionId") /\ IsString(Get(event, "sessionId"))

\* What one gated emit call does: whether it was left by an exception, the
\* platformEmit calls, the drop() calls and the onEventDropped calls.
GateOutcome(threw, forwarded, drops, reported) ==
    [threw |-> threw, forwarded |-> forwarded, drops |-> drops, reported |-> reported]
GateThrown == GateOutcome(TRUE, <<>>, <<>>, <<>>)

\* platformEmit(event).
forward(event, cb) == GateOutcome(cb.platformEmit, <<event>>, <<>>, <<>>)
\* drop(event, reason, code): onEventDropped?.(event, reason, code).
drop(event, reason, code, given, cb) ==
    LET d == [event |-> event, reason |-> reason, code |-> code]
    IN IF given THEN GateOutcome(cb.onEventDropped, <<>>, <<d>>, <<d>>)
       ELSE GateOutcome(FALSE, <<>>, <<d>>, <<>>)

admittedAfterEndAlways(event, allowAfterEnd) == IsDevLog(event)
\* event.type === 'DEV_LOG' && allowDevLogAfterEnd.
admittedAfterEnd(event, allowAfterEnd) == IsDevLog(event) /\ allowAfterEnd

\* The function createGatedEmit returns, called with event while
\* sessionDriver.getContext() returns snap.
gatedEmit(event, snap, given, allowAfterEnd, cb) ==
    IF snap.threw THEN GateThrown
    ELSE CASE snap.ctx.state = "INITIAL" ->
                IF TypeReadThrows(event) THEN GateThrown
                ELSE IF IsDevLog(event) THEN forward(event, cb)
                ELSE drop(event, "Event '" \o Text(Get(event, "type"))
                                 \o "' emitted before session started. "
                                 \o "Platform must transition to IN_SESSION first.",
                          "BEFORE_SESSION", given, cb)
           [] snap.ctx.state = "IN_SESSION" ->
                IF InThrows(event) THEN GateThrown
                ELSE IF hasSessionId(event) /\ Get(event, "sessionId") # snap.ctx.sessionId
                THEN drop(event, "sessionId mismatch: event.sessionId='"
                                 \o Text(Get(event, "sessionId"))
                                 \o "' !== context.sessionId='"
                                 \o Text(snap.ctx.sessionId) \o "'",
                          "SESSION_ID_MISMATCH", given, cb)
                ELSE forward(event, cb)
           [] snap.ctx.state = "ENDED" ->
                IF TypeReadThrows(event) THEN GateThrown
                ELSE IF admittedAfterEnd(event, allowAfterEnd) THEN forward(event, cb)
                ELSE drop(event, "Event '" \o Text(Get(event, "type"))
                                 \o "' emitted after session ended",
                          "AFTER_SESSION_ENDED", given, cb)

\* createGatedEmit(options).
GateCreated(given, allowAfterEnd) ==
    /\ onEventDropped = given
    /\ allowDevLogAfterEnd = allowAfterEnd

\* One call of the gated emit.  The driver state is the one the call saw as long
\* as this record is the last call.
GatedEmit(event, cb) ==
    /\ \E done \in {gatedEmit(event,
                              createContextSnapshot(currentState, sessionId, startTime,
                                                    sessionDurationMs),
                              onEventDropped, allowDevLogAfterEnd, cb)} :
          last' = [op |-> "gatedEmit", arg |-> event, threw |-> done.threw,
                   forwarded |-> done.forwarded, drops |-> done.drops,
                   reported |-> done.reported]
    /\ UNCHANGED <<emitterVars, driverVars, gateVars, guardVars>>

(***************************************************************************)
(* The validator called directly                                           *)
(***************************************************************************)
\* The analytics fields of PERFORMANCE_REPORTED and the values a game may put
\* in an analytics field: in range, out of range on either side, not finite and
\* not a number.
PerformanceFields == {"accuracy", "successRate", "reactionTimeMs", "errorCount",
                      "hintsUsed", "streakLength"}
AnalyticsValues == {Whole(-5), Num(-1), Whole(0), Num(1), Whole(1), Num(3), Whole(7),
                    NaN, PosInf, Str("high")}
PerformanceWith(field, v) ==
    SetField(Obj([type |-> Str("PERFORMANCE_REPORTED")]), field, v)
UserSignalWith(v) ==
    Obj([type |-> Str("USER_SIGNAL"), signalType |-> Str("felt_easy"), value |-> v])
\* LEVEL_STARTED events with well-formed and malformed structural fields.
LevelStartedWith(levelId, attemptNumber, difficulty) ==
    Obj([type |-> Str("LEVEL_STARTED"), levelId |-> levelId,
         attemptNumber |-> attemptNumber, difficulty |-> difficulty])
\* SAVE_GAME_STATE with a state blob that serializes to the given number of
\* bytes, and a DEV_LOG that carries data of that size.
SaveGameStateWith(bytes) ==
    Obj([type |-> Str("SAVE_GAME_STATE"), stateBlob |-> Blob(bytes),
         schemaVersion |-> Whole(1)])
DevLogWith(bytes) ==
    Obj([type |-> Str("DEV_LOG"), message |-> Str("hi"), data |-> Blob(bytes)])
\* An event of an unknown kind that cannot be serialized.
UnknownKindOversize == Obj([type |-> Str("TELEPORTED"), self |-> Circular])
\* The values handed to validateEvent: values that are not objects, objects
\* without a string type, a bare event of every kind, well-formed and malformed
\* events, and the analytics events above.
ValidatorInputs ==
    {Null, Undefined, Whole(42), Str("LEVEL_STARTED"), NoType, Obj([type |-> Whole(1)]),
     UnknownKind, UnknownKindOversize, LevelStarted, LevelStartedBad, SessionStarted,
     DevLog, DevLogBad}
    \cup {Obj([type |-> Str(kind)]) : kind \in EventKinds}
    \cup {PerformanceWith(field, v) : field \in PerformanceFields, v \in AnalyticsValues}
    \cup {UserSignalWith(v) : v \in AnalyticsValues}
    \cup {SaveGameStateWith(bytes) :
             bytes \in {100, MAX_EVENT_SIZE, MAX_EVENT_SIZE + 1, MAX_STATE_BLOB_SIZE,
                        MAX_STATE_BLOB_SIZE + 1}}
    \cup {DevLogWith(bytes) : bytes \in {100, MAX_EVENT_SIZE, MAX_STATE_BLOB_SIZE}}
    \cup {LevelStartedWith(l, n, d) :
             l \in {Str("level-1"), Str(""), Whole(1)},
             n \in {Whole(1), Whole(0), Num(3), NaN, Str("1")},
             d \in {Whole(3), Whole(11), Num(5), Str("3")}}

\* validateEvent(event, m) called by a host or a test.
Validate(event, m) ==
    /\ last' = [op |-> "validateEvent", arg |-> event, mode |-> m,
                result |-> validateEvent(event, m)]
    /\ UNCHANGED <<emitterVars, driverVars, gateVars, guardVars>>

(***************************************************************************)
(* Capability guard (core/capability-guard)                                *)
(***************************************************************************)

\* The capabilities a game asks for.
Capabilities == {"audio", "haptics", "timers"}
\* The longest array of declared capabilities a host creates a guard with.
MaxDeclared == 2
DeclaredArrays == UNION {[1..n -> Capabilities] : n \in 0..MaxDeclared}
\* new Set(array): the elements of the array.
SetOf(array) == {array[i] : i \in DOMAIN array}

\* What the platform's checkPermission does when it is called: it throws, or
\* it returns { granted, reason? }.
PermissionThrown == [threw |-> TRUE]
Permission(granted, reason) == [threw |-> FALSE, granted |-> granted, reason |-> reason]
\* The default checker, used when config.checkPermission is left out, returns
\* { granted: true }, which is Permission(TRUE, Undefined).
PermissionResults ==
    {PermissionThrown}
        \cup {Permission(g, r) : g \in BOOLEAN,
                                 r \in {Undefined, Null, Str(""), Str("user_disabled")}}

\* The object a factory of the platform produced for a capability.
ApiBy(factory, capability) == [by |-> factory, capability |-> capability]

\* What a call of getCapability did: what it threw or returned, and the
\* callbacks of the platform it invoked, in order.
GuardThrew(error, invoked) ==
    [threw |-> TRUE, error |-> error, returned |-> <<>>, invoked |-> invoked]
GuardReturned(result, invoked) ==
    [threw |-> FALSE, error |-> "", returned |-> <<result>>, invoked |-> invoked]

\* The unavailable path that hands the game the value undefined as its api
\* when the no-op factory throws.
fallbackUndefinedState(capability, permissionResult, noOpThrows, invoked) ==
    GuardReturned([isAvailable |-> FALSE,
                   api |-> IF noOpThrows THEN Undefined
                           ELSE ApiBy("noOpApiFactory", capability),
                   unavailableReason |->
                       IF permissionResult.reason \in {Undefined, Null}
                       THEN Str("internal_error") ELSE permissionResult.reason],
                  Append(invoked, "noOpApiFactory"))

\* The unavailable path of getCapability: the no-op api and the reason.
fallback(capability, permissionResult, noOpThrows, invoked) ==
    IF noOpThrows
    THEN GuardThrew("SDK internal error", Append(invoked, "noOpApiFactory"))
    ELSE GuardReturned([isAvailable |-> FALSE,
                        api |-> ApiBy("noOpApiFactory", capability),
                        unavailableReason |->
                            IF permissionResult.reason \in {Undefined, Null}
                            THEN Str("internal_error") ELSE permissionResult.reason],
                       Append(invoked, "noOpApiFactory"))

\* getCapability asking the permission checker before it looks at the
\* declarations.
getCapabilityAsksFirst(declared, capability, permissionResult, apiThrows, noOpThrows) ==
    IF permissionResult.threw THEN GuardThrew("checkPermission", <<"checkPermission">>)
    ELSE IF capability \notin declared
    THEN GuardThrew("CapabilityNotDeclaredError", <<"checkPermission">>)
    ELSE IF permissionResult.granted /\ ~apiThrows
    THEN GuardReturned([isAvailable |-> TRUE, api |-> ApiBy("apiFactory", capability)],
                       <<"checkPermission", "apiFactory">>)
    ELSE fallback(capability, permissionResult, noOpThrows,
                  IF permissionResult.granted THEN <<"checkPermission", "apiFactory">>
                  ELSE <<"checkPermission">>)

\* getCapability(capability) of a guard whose Set is declared, when
\* checkPermission behaves as permissionResult says and the factories throw
\* as apiThrows and noOpThrows say.
getCapability(declared, capability, permissionResult, apiThrows, noOpThrows) ==
    IF capability \notin declared THEN GuardThrew("CapabilityNotDeclaredError", <<>>)
    ELSE IF permissionResult.threw
    THEN GuardThrew("checkPermission", <<"checkPermission">>)
    ELSE IF permissionResult.granted /\ ~apiThrows
    THEN GuardReturned([isAvailable |-> TRUE, api |-> ApiBy("apiFactory", capability)],
                       <<"checkPermission", "apiFactory">>)
    ELSE fallback(capability, permissionResult, noOpThrows,
                  IF permissionResult.granted THEN <<"checkPermission", "apiFactory">>
                  ELSE <<"checkPermission">>)

\* createCapabilityGuard(config) with the array given.
GuardCreated(array) ==
    /\ declaredCapabilities = array
    /\ declaredSet = SetOf(array)

\* getCapability(capability), called by the game.
GetCapability(capability, permissionResult, apiThrows, noOpThrows) ==
    /\ \E done \in {getCapability(declaredSet, capability, permissionResult,
                                  apiThrows, noOpThrows)} :
          last' = [op |-> "getCapability", capability |-> capability,
                   permission |-> permissionResult, apiThrows |-> apiThrows,
                   noOpThrows |-> noOpThrows, threw |-> done.threw,
                   error |-> done.error, returned |-> done.returned,
                   invoked |-> done.invoked]
    /\ UNCHANGED <<emitterVars, driverVars, gateVars, guardVars>>

\* The host pushes a capability onto the array it created the guard with.
HostPushes(capability) ==
    /\ Len(declaredCapabilities) < MaxDeclared
    /\ declaredCapabilities' = Append(declaredCapabilities, capability)
    /\ last' = [op |-> "push", capability |-> capability]
    /\ UNCHANGED <<emitterVars, driverVars, gateVars, declaredSet>>

\* The host pops the last capability off that array.
HostPops ==
    /\ Len(declaredCapabilities) > 0
    /\ declaredCapabilities' =
           SubSeq(declaredCapabilities, 1, Len(declaredCapabilities) - 1)
    /\ last' = [op |-> "pop"]
    /\ UNCHANGED <<emitterVars, driverVars, gateVars, declaredSet>>

(***************************************************************************)
(* Specifications                                                          *)
(***************************************************************************)
vars == <<emitterVars, last, driverVars, gateVars, guardVars>>

\* The emitter alone: emit calls, resets and the passage of time.
InitEmitter ==
    /\ \E m \in ValidationModes : EmitterCreated(m)
    /\ DriverCreated
    /\ GateCreated(FALSE, FALSE)
    /\ GuardCreated(<<>>)
    /\ last = NoCall
NextEmitter ==
    \/ \E event \in EmitInputs : Emit(event)
    \/ ResetRateLimiter
    \/ Tick
SpecEmitter == InitEmitter /\ [][NextEmitter]_vars

\* The session driver alone: host transitions and subscriptions in any order.
InitDriver ==
    /\ EmitterCreated("production")
    /\ DriverCreated
    /\ GateCreated(FALSE, FALSE)
    /\ GuardCreated(<<>>)
    /\ last = NoCall
NextDriver ==
    \/ \E sid \in SessionIds, reading \in NowReadings, throws \in ListenerBehaviours :
          StartSession(sid, reading, throws)
    \/ \E reason \in SessionEndReasons, reading \in NowReadings,
          throws \in ListenerBehaviours : EndSession(reason, reading, throws)
    \/ \E reason \in SessionAbortReasons, reading \in NowReadings,
          throws \in ListenerBehaviours : AbortSession(reason, reading, throws)
    \/ \E l \in Listeners : Subscribe(l)
    \/ \E l \in Listeners : Unsubscribe(l)
    \/ GetContext
    \/ IsSessionActive
SpecDriver == InitDriver /\ [][NextDriver]_vars

\* A gate over a session driver: host transitions and gated emit calls in any
\* order; nobody subscribes.
InitGate ==
    /\ EmitterCreated("production")
    /\ DriverCreated
    /\ \E given \in BOOLEAN, allowAfterEnd \in BOOLEAN : GateCreated(given, allowAfterEnd)
    /\ GuardCreated(<<>>)
    /\ last = NoCall
NextGate ==
    \/ \E sid \in SessionIds, reading \in NowReadings, throws \in ListenerBehaviours :
          StartSession(sid, reading, throws)
    \/ \E reason \in SessionEndReasons, reading \in NowReadings,
          throws \in ListenerBehaviours : EndSession(reason, reading, throws)
    \/ \E reason \in SessionAbortReasons, reading \in NowReadings,
          throws \in ListenerBehaviours : AbortSession(reason, reading, throws)
    \/ \E event \in GateInputs, cb \in CallbackBehaviours : GatedEmit(event, cb)
SpecGate == InitGate /\ [][NextGate]_vars

\* The validator alone: any value in either mode, in any order.
InitValidator ==
    /\ EmitterCreated("production")
    /\ DriverCreated
    /\ GateCreated(FALSE, FALSE)
    /\ GuardCreated(<<>>)
    /\ last = NoCall
NextValidator ==
    \E event \in ValidatorInputs, m \in ValidationModes : Validate(event, m)
SpecValidator == InitValidator /\ [][NextValidator]_vars

\* The capability guard alone: a guard created with any array, the game
\* asking for capabilities and the host changing its array afterwards.
InitGuard ==
    /\ EmitterCreated("production")
    /\ DriverCreated
    /\ GateCreated(FALSE, FALSE)
    /\ \E array \in DeclaredArrays : GuardCreated(array)
    /\ last = NoCall
NextGuard ==
    \/ \E capability \in Capabilities, permissionResult \in PermissionResults,
          apiThrows \in BOOLEAN, noOpThrows \in BOOLEAN :
          GetCapability(capability, permissionResult, apiThrows, noOpThrows)
    \/ \E capability \in Capabilities : HostPushes(capability)
    \/ HostPops
SpecGuard == InitGuard /\ [][NextGuard]_vars

(***************************************************************************)
(* Claims about the event emitter (checked under SpecEmitter)              *)
(***************************************************************************)
IsEmit == last.op = "emit"
\* What validateEvent makes of the last emitted value in the emitter's mode.
LastValidation == validateEvent(last.arg, mode)
\* The last call got as far as validateEvent.
LastValidated ==
    /\ last.allowed
    /\ ~(mode = "production" /\ (TypeReadThrows(last.arg) \/ IsDevLog(last.arg)))
\* The calls admitted since the current window began.
AdmittedInWindow ==
    Cardinality({i \in DOMAIN recentAdmissions :
                    recentAdmissions[i] >= rateLimitWindowStart})
WindowOpen == now - rateLimitWindowStart < RATE_LIMIT_WINDOW_MS

\* C1: emit(event) never throws to its caller, whatever the value passed, the
\* mode, the rate limiter and the handlers do.
C1_EmitNeverThrows == IsEmit => ~last.threw

\* C3: within one window the rate limiter admits calls up to the ceiling and
\* drops every call after that; the first call after the window has elapsed
\* restarts the window, sets the counter back to zero and is admitted.
C3_RateLimiterBoundary ==
    /\ [](WindowOpen => AdmittedInWindow <= MAX_EVENTS_PER_SECOND)
    /\ [][calls' = calls + 1 =>
            /\ (WindowOpen /\ AdmittedInWindow < MAX_EVENTS_PER_SECOND)
                  => last'.allowed /\ eventsInWindow' = AdmittedInWindow + 1
            /\ (WindowOpen /\ AdmittedInWindow >= MAX_EVENTS_PER_SECOND)
                  => ~last'.allowed /\ eventsInWindow' = MAX_EVENTS_PER_SECOND
            /\ ~WindowOpen
                  => /\ last'.allowed
                     /\ rateLimitWindowStart' = now
                     /\ eventsInWindow' = 1]_vars
\* A call was dropped because the ceiling had been reached in its window.
C3_Witness ==
    /\ IsEmit
    /\ ~last.allowed
    /\ WindowOpen
    /\ AdmittedInWindow = MAX_EVENTS_PER_SECOND

\* C4: in any rolling interval of one window's length at most the ceiling of
\* calls is admitted.
C4_SlidingWindow == Len(recentAdmissions) <= MAX_EVENTS_PER_SECOND

C6_CountedSeparately ==
    [][/\ eventCount' >= eventCount
       /\ droppedCount' >= droppedCount
       /\ calls' = calls + 1 =>
            LET r == validateEvent(last'.arg, mode)
                validated == /\ last'.allowed
                             /\ ~(mode = "production"
                                  /\ (TypeReadThrows(last'.arg) \/ IsDevLog(last'.arg)))
            IN /\ (~last'.allowed \/ (validated /\ (r.threw \/ ~r.valid)))
                     => /\ droppedCount' = droppedCount + 1
                        /\ eventCount' = eventCount
               /\ (validated /\ ~r.threw /\ r.valid)
                     => /\ eventCount' = eventCount + 1
                        /\ droppedCount' = droppedCount]_vars
\* The validator threw on an unknown kind in development mode after other
\* events had been delivered.
C6_Witness ==
    /\ IsEmit
    /\ last.verdict = "validator_threw"
    /\ eventCount > 0
    /\ droppedCount > 0

C8_NoDevLogInProduction ==
    (IsEmit /\ mode = "production")
        => /\ IsDevLog(last.arg) => last.deliveries = <<>>
           /\ \A i \in 1..Len(last.deliveries) : ~IsDevLog(last.deliveries[i].event.event)
\* A production emitter was handed a DEV_LOG event within its rate limit.
C8_Witness == IsEmit /\ mode = "production" /\ IsDevLog(last.arg) /\ last.allowed

\* C9: a handler is invoked only for a call that passed the rate limit and whose
\* validation returned valid, and it receives the validator's cleaned event with
\* the configured gameId and sdkVersion and the sessionId getSessionId()
\* returned, or no sessionId field when that was undefined.
C9_OnlyEnrichedValidated ==
    (IsEmit /\ Len(last.deliveries) > 0)
        => /\ LastValidated
           /\ ~LastValidation.threw
           /\ LastValidation.valid
           /\ \A i \in 1..Len(last.deliveries) :
                 LET e == last.deliveries[i].event
                 IN /\ e.event = LastValidation.event
                    /\ e.gameId = GameId
                    /\ e.sdkVersion = SdkVersion
                    /\ IF last.sid = Undefined THEN "sessionId" \notin DOMAIN e
                       ELSE "sessionId" \in DOMAIN e /\ e.sessionId = last.sid
\* A clamped event was delivered with a session id.
C9_Witness ==
    /\ IsEmit
    /\ Len(last.deliveries) > 0
    /\ last.arg = PerformanceHigh
    /\ last.deliveries[1].event.event # last.arg
    /\ last.sid = Str("s1")

\* C28: the window counter equals the number of emit calls of the current
\* window that passed the rate check, whatever became of their events, and
\* never exceeds the ceiling, so no more than the ceiling are delivered in one
\* window; resetRateLimiter() sets the counter to zero and leaves the delivered
\* and dropped counts as they are.
C28_BudgetAtAdmission ==
    /\ [](WindowOpen => eventsInWindow = AdmittedInWindow)
    /\ [](eventsInWindow <= MAX_EVENTS_PER_SECOND)
    /\ [](deliveredInWindow <= eventsInWindow)
    /\ [][(calls' = calls /\ now' = now)
            => /\ eventsInWindow' = 0
               /\ eventCount' = eventCount
               /\ droppedCount' = droppedCount]_vars
\* The window is full although nothing was delivered in it: every admitted call
\* was dropped by validation or discarded.
C28_Witness ==
    /\ IsEmit
    /\ WindowOpen
    /\ eventsInWindow = MAX_EVENTS_PER_SECOND
    /\ deliveredInWindow = 0
    /\ last.allowed
    /\ last.verdict # "delivered"

(***************************************************************************)
(* Claims about the gate (checked under SpecGate)                          *)
(***************************************************************************)
\* C2: the gated emit never throws to the game, whatever the event, the
\* lifecycle state and the host's callbacks do.
C2_GatedEmitNeverThrows == last.op = "gatedEmit" => ~last.threw

IsGatedEmit == last.op = "gatedEmit"
\* What sessionDriver.getContext() did in the last gated emit call: the driver
\* has not moved since.
Seen == createContextSnapshot(currentState, sessionId, startTime, sessionDurationMs)
\* The last gated emit call got a context in the given state and an event whose
\* type it could read.
GateDecided(state) ==
    /\ IsGatedEmit
    /\ ~Seen.threw
    /\ Seen.ctx.state = state
    /\ ~TypeReadThrows(last.arg)
\* The last call handed the event to platformEmit once and dropped nothing.
Forwarded == last.forwarded = <<last.arg>> /\ last.drops = <<>>
\* The last call dropped the event once with the code and forwarded nothing.
DroppedAs(code) ==
    /\ last.forwarded = <<>>
    /\ Len(last.drops) = 1
    /\ last.drops[1].event = last.arg
    /\ last.drops[1].code = code

\* C14: while the context is INITIAL the gate forwards an event if and only if
\* its type is DEV_LOG; every other kind, SESSION_STARTED included, is dropped
\* with code BEFORE_SESSION.
C14_GateInitial ==
    GateDecided("INITIAL")
        => IF Get(last.arg, "type") = Str("DEV_LOG") THEN Forwarded
           ELSE DroppedAs("BEFORE_SESSION")
\* SESSION_STARTED was emitted before the session and dropped.
C14_Witness ==
    /\ GateDecided("INITIAL")
    /\ last.arg = SessionStarted
    /\ DroppedAs("BEFORE_SESSION")

\* C16: while the context is ENDED every event is dropped with code
\* AFTER_SESSION_ENDED and not forwarded, except a DEV_LOG event, which is
\* forwarded when and only when the gate was created with allowDevLogAfterEnd
\* true.
C16_GateEnded ==
    GateDecided("ENDED")
        => IF Get(last.arg, "type") = Str("DEV_LOG") /\ allowDevLogAfterEnd THEN Forwarded
           ELSE DroppedAs("AFTER_SESSION_ENDED")
\* A DEV_LOG emitted after the end through a gate created without the flag was
\* dropped.
C16_Witness ==
    /\ GateDecided("ENDED")
    /\ last.arg = DevLog
    /\ ~allowDevLogAfterEnd
    /\ DroppedAs("AFTER_SESSION_ENDED")

\* C15: while the context is IN_SESSION an event that carries a sessionId field
\* is forwarded only if that sessionId equals the context's session id, a
\* mismatch is dropped with code SESSION_ID_MISMATCH, and every event without a
\* sessionId field is forwarded.
C15_GateInSession ==
    (IsGatedEmit /\ ~Seen.threw /\ Seen.ctx.state = "IN_SESSION" /\ IsObject(last.arg))
        => IF HasKey(last.arg, "sessionId")
                /\ Get(last.arg, "sessionId") # Seen.ctx.sessionId
           THEN DroppedAs("SESSION_ID_MISMATCH")
           ELSE Forwarded

\* C17: every gated emit call either forwards the event to platformEmit once or
\* drops it once; a drop invokes onEventDropped, when provided, once with the
\* event, a reason and the code, a forward never invokes it; and the same call
\* through a gate created the other way round (without the callback, or with
\* it) reaches platformEmit the same.
C17_OneOutcome ==
    IsGatedEmit
        => /\ \/ Forwarded /\ last.reported = <<>>
              \/ /\ last.forwarded = <<>>
                 /\ Len(last.drops) = 1
                 /\ last.drops[1].event = last.arg
                 /\ last.reported = IF onEventDropped THEN last.drops ELSE <<>>
           /\ \A cb \in CallbackBehaviours :
                 gatedEmit(last.arg, Seen, ~onEventDropped, allowDevLogAfterEnd,
                           cb).forwarded = last.forwarded

\* C18: across any interleaving of startSession, endSession, abortSession and
\* gated emit calls, an event of a kind other than DEV_LOG reaches platformEmit
\* only while the driver is IN_SESSION, and every forwarded event that carries
\* a sessionId carries the id given to startSession.
C18_AdmissionEndToEnd ==
    (IsGatedEmit /\ last.forwarded # <<>>)
        => /\ Get(last.arg, "type") # Str("DEV_LOG") => currentState = "IN_SESSION"
           /\ HasKey(last.arg, "sessionId") => Get(last.arg, "sessionId") = sessionId

(***************************************************************************)
(* Claims about the session driver (checked under SpecDriver)              *)
(***************************************************************************)
IsTransition == last.op \in {"startSession", "endSession", "abortSession"}
\* The last call was a transition its state does not allow.
IllegalTransition ==
    /\ IsTransition
    /\ \/ last.op = "startSession" /\ last.before.currentState # "INITIAL"
       \/ last.op # "startSession" /\ last.before.currentState # "IN_SESSION"

\* C10: an illegal transition throws, leaves state, session id, start time and
\* duration as they were and notifies no listener; no step leaves ENDED.
C10_IllegalTransitionsRefused ==
    /\ [](IllegalTransition
            => /\ last.threw
               /\ Driver = last.before
               /\ last.notified = <<>>)
    /\ [][currentState = "ENDED" => currentState' = "ENDED"]_vars
\* startSession was refused after the session had ended, with a listener
\* subscribed.
C10_Witness ==
    /\ last.op = "startSession"
    /\ last.before.currentState = "ENDED"
    /\ last.threw
    /\ Len(listeners) > 0

\* The place of a state in INITIAL, IN_SESSION, ENDED.
Rank(state) == CASE state = "INITIAL" -> 0
                 [] state = "IN_SESSION" -> 1
                 [] state = "ENDED" -> 2

\* C11: the snapshot states a subscribed listener is handed arrive in the order
\* INITIAL, IN_SESSION, ENDED, none twice and none after a later one, also when
\* listeners call the driver from inside a notification.
C11_ObservedInOrder ==
    \A l \in Listeners :
        \A i, j \in 1..Len(observed[l]) :
            i < j => Rank(observed[l][i]) < Rank(observed[l][j])

\* C12: getContext() returns, without throwing, a snapshot of the driver's
\* current state: INITIAL with no session fields, IN_SESSION with the session id
\* and start time, ENDED with the session id and duration, whatever nowMs()
\* returned.
C12_GetContextMatches ==
    last.op = "getContext"
        => /\ ~last.threw
           /\ Len(last.returned) = 1
           /\ last.returned[1] =
                 CASE currentState = "INITIAL" -> [state |-> "INITIAL"]
                   [] currentState = "IN_SESSION" ->
                         [state |-> "IN_SESSION", sessionId |-> sessionId,
                          startTime |-> startTime]
                   [] currentState = "ENDED" ->
                         [state |-> "ENDED", sessionId |-> sessionId,
                          sessionDurationMs |-> sessionDurationMs]

\* The invocations of listener l for the transition numbered k of the last call.
InvocationsOf(l, k) ==
    SelectSeq(last.notified, LAMBDA n : n.listener = l /\ n.of = k)

IsValidate == last.op = "validateEvent"
\* The value has a type string that is not one of the recognised kinds.
UnknownType(v) ==
    /\ v.t = "object"
    /\ IsString(Get(v, "type"))
    /\ Get(v, "type").s \notin EventKinds
\* r is a result {valid, event?, errors, warnings}: validateEvent returned.
IsResult(r) ==
    /\ ~r.threw
    /\ IF r.valid THEN "event" \in DOMAIN r /\ r.errors = <<>>
       ELSE "event" \notin DOMAIN r /\ Len(r.errors) > 0
    /\ Len(r.warnings) >= 0
\* validateEvent returned valid:false with the 'Unknown event type' error.
UnknownRejected(r, v) ==
    /\ IsResult(r)
    /\ ~r.valid
    /\ r.errors = <<"Unknown event type: " \o Get(v, "type").s>>

\* C19 as stated: validateEvent returns a result for every value in both modes,
\* except that a value whose type string is not a recognised kind raises
\* UnknownEventTypeError in development and returns valid:false with an
\* 'Unknown event type' error in production.
C19_ThrowsOnlyUnknownInDevelopment ==
    IsValidate
        => IF UnknownType(last.arg)
           THEN IF last.mode = "development"
                THEN last.result = Thrown("UnknownEventTypeError")
                ELSE UnknownRejected(last.result, last.arg)
           ELSE IsResult(last.result)

\* C19 as the code has it: the size check comes before the dispatch, so a
\* value of an unknown kind raises (development) or is rejected as unknown
\* (production) only when it serializes to at most MAX_EVENT_SIZE bytes; a
\* larger or unserializable one is rejected for its size in both modes.
C19_ThrowsOnlyUnknownWithinSize ==
    IsValidate
        => IF UnknownType(last.arg) /\ estimateSize(last.arg) <= MAX_EVENT_SIZE
           THEN IF last.mode = "development"
                THEN last.result = Thrown("UnknownEventTypeError")
                ELSE UnknownRejected(last.result, last.arg)
           ELSE /\ IsResult(last.result)
                /\ UnknownType(last.arg) =>
                      /\ ~last.result.valid
                      /\ last.result.errors # <<"Unknown event type: "
                                                  \o Get(last.arg, "type").s>>
\* An event of an unknown kind was rejected, without an exception, by the
\* production validator.
C19_Witness ==
    /\ IsValidate
    /\ last.mode = "production"
    /\ last.arg = UnknownKind
    /\ UnknownRejected(last.result, last.arg)

\* The analytics fields whose range is [0, 1]; the others have the range >= 0.
ProportionFields == {"accuracy", "successRate", "value"}
\* v is a finite number outside the range of the field.
OutOfRange(field, v) ==
    /\ IsFinite(v)
    /\ \/ v.h < 0
       \/ field \in ProportionFields /\ v.h > 2
\* The bound of the field's range nearest to an out-of-range v.
NearestBound(field, v) == IF v.h < 0 THEN Whole(0) ELSE Whole(1)
\* The result accepts the event with the field replaced by the bound and says
\* so in its warnings.
ClampedTo(r, field, bound) ==
    /\ ~r.threw
    /\ r.valid
    /\ Get(r.event, field) = bound
    /\ Len(r.warnings) > 0

\* C20: an out-of-range number in an analytics field of an otherwise valid
\* PERFORMANCE_REPORTED or USER_SIGNAL event yields valid:true, the field
\* replaced by the nearest bound of its range, and a non-empty warnings list.
C20_ClampDontReject ==
    IsValidate
        => /\ \A field \in PerformanceFields, v \in AnalyticsValues :
                 (last.arg = PerformanceWith(field, v) /\ OutOfRange(field, v))
                     => ClampedTo(last.result, field, NearestBound(field, v))
           /\ \A v \in AnalyticsValues :
                 (last.arg = UserSignalWith(v) /\ OutOfRange("value", v))
                     => ClampedTo(last.result, "value", NearestBound("value", v))

\* The result accepts the event with the field left out and says so in its
\* warnings.
Omitted(r, field) ==
    /\ ~r.threw
    /\ r.valid
    /\ ~HasKey(r.event, field)
    /\ Len(r.warnings) > 0

\* C21: a present value that is not a finite number, in an analytics field of
\* an otherwise valid PERFORMANCE_REPORTED or USER_SIGNAL event, yields
\* valid:true, the field left out of the cleaned event, and a warning.
C21_NonNumericOmitted ==
    IsValidate
        => /\ \A field \in PerformanceFields, v \in AnalyticsValues :
                 (last.arg = PerformanceWith(field, v) /\ ~IsFinite(v))
                     => Omitted(last.result, field)
           /\ \A v \in AnalyticsValues :
                 (last.arg = UserSignalWith(v) /\ ~IsFinite(v))
                     => Omitted(last.result, "value")

\* The messages that name the structural fields of a LEVEL_STARTED event that
\* are invalid: a levelId that is not a non-empty string, an attemptNumber that
\* is not a positive integer, a difficulty that is not an integer in 1..10.
LevelStartedViolations(e) ==
    (IF IsString(Get(e, "levelId")) /\ Len(Get(e, "levelId").s) > 0 THEN <<>>
     ELSE <<"levelId must be a non-empty string">>)
    \o (IF IsInteger(Get(e, "attemptNumber")) /\ Get(e, "attemptNumber").h >= 2 THEN <<>>
        ELSE <<"attemptNumber must be a positive integer">>)
    \o (IF /\ IsInteger(Get(e, "difficulty"))
           /\ Get(e, "difficulty").h >= 2
           /\ Get(e, "difficulty").h <= 20
        THEN <<>>
        ELSE <<"difficulty must be an integer between 1 and 10">>)

\* C22: an event with an invalid structural field is rejected, valid:false with
\* no cleaned event, and errors names every violated structural field; checked
\* on LEVEL_STARTED events with any combination of levelId, attemptNumber and
\* difficulty.
C22_RejectNamesEveryField ==
    (IsValidate /\ Get(last.arg, "type") = Str("LEVEL_STARTED")
        /\ LevelStartedViolations(last.arg) # <<>>)
        => /\ ~last.result.threw
           /\ ~last.result.valid
           /\ "event" \notin DOMAIN last.result
           /\ last.result.errors = LevelStartedViolations(last.arg)

\* The event has no analytics field that cleaning changes: none out of range,
\* none present without being a finite number.
InRange(e) ==
    /\ \A field \in PerformanceFields \cup {"value"} :
          Get(e, field) # Undefined
              => IsFinite(Get(e, field)) /\ ~OutOfRange(field, Get(e, field))

\* C23: when validateEvent accepts an event, validating the cleaned event in
\* the same mode accepts it again, returns it field for field and records no
\* warning; and an accepted event that was in range is returned unchanged.
C23_Idempotent ==
    (IsValidate /\ ~last.result.threw /\ last.result.valid)
        => /\ \E again \in {validateEvent(last.result.event, last.mode)} :
                 /\ ~again.threw
                 /\ again.valid
                 /\ again.event = last.result.event
                 /\ again.warnings = <<>>
           /\ InRange(last.arg) => last.result.event = last.arg
\* An event was accepted with a field clamped, so the cleaned event differs
\* from the one given.
C23_Witness ==
    /\ IsValidate
    /\ ~last.result.threw
    /\ last.result.valid
    /\ last.result.event # last.arg
    /\ last.result.warnings # <<>>

\* C24: a SAVE_GAME_STATE event with a valid schemaVersion is accepted as long
\* as its stateBlob serializes to at most MAX_STATE_BLOB_SIZE bytes and is
\* rejected when the blob is larger; an event of another kind is rejected when
\* it serializes to more than MAX_EVENT_SIZE bytes.
C24_BlobCeiling ==
    IsValidate
        => /\ (/\ Get(last.arg, "type") = Str("SAVE_GAME_STATE")
               /\ Get(last.arg, "stateBlob").t = "blob"
               /\ last.arg = SaveGameStateWith(Get(last.arg, "stateBlob").bytes))
                 => /\ ~last.result.threw
                    /\ last.result.valid
                          <=> Get(last.arg, "stateBlob").bytes <= MAX_STATE_BLOB_SIZE
           /\ (/\ last.arg.t = "object"
               /\ IsString(Get(last.arg, "type"))
               /\ Get(last.arg, "type") # Str("SAVE_GAME_STATE")
               /\ estimateSize(last.arg) > MAX_EVENT_SIZE)
                 => ~last.result.threw /\ ~last.result.valid

\* What validateEvent makes of the last value in the other mode.
InOtherMode ==
    validateEvent(last.arg, IF last.mode = "development" THEN "production"
                            ELSE "development")

SnapshotsOfCall ==
    CASE IsTransition -> {last.notified[i].ctx : i \in DOMAIN last.notified}
                             \cup UNION {{m.snapshot[j] : j \in DOMAIN m.snapshot} :
                                           m \in {last.made[i] : i \in DOMAIN last.made}}
      [] last.op = "getContext" -> {last.returned[i] : i \in DOMAIN last.returned}
      [] OTHER -> {}

\* C29: session data is fixed once recorded.  Every snapshot returned or
\* notified while IN_SESSION carries the id given to startSession and the
\* clock reading during it; every ENDED snapshot carries the same id and the
\* reading during endSession or abortSession minus the reading during
\* startSession; no snapshot has a field for the reason; the stored id and
\* start time never change once set, nor the duration; and isSessionActive()
\* returns true exactly when the current state is IN_SESSION.
C29_SessionDataFixed ==
    /\ [](\A ctx \in SnapshotsOfCall :
            /\ DOMAIN ctx \subseteq {"state", "sessionId", "startTime",
                                     "sessionDurationMs"}
            /\ ctx.state = "IN_SESSION"
                  => /\ ctx.sessionId = recorded.id
                     /\ ctx.startTime = recorded.t0
            /\ ctx.state = "ENDED"
                  => /\ ctx.sessionId = recorded.id
                     /\ ctx.sessionDurationMs = Minus(recorded.t1, recorded.t0))
    /\ [](last.op = "isSessionActive"
            => (last.returned <=> currentState = "IN_SESSION"))
    /\ [][/\ sessionId # Undefined => sessionId' = sessionId
          /\ startTime # Undefined => startTime' = startTime
          /\ sessionDurationMs # Undefined
                => sessionDurationMs' = sessionDurationMs]_vars

\* A session started at clock reading 100 was ended at reading 100, and
\* getContext returns the ENDED snapshot with the id given and a duration of 0.
C29_Witness ==
    /\ last.op = "getContext"
    /\ recorded.t0 = Whole(100)
    /\ recorded.t1 = Whole(100)
    /\ last.returned = <<[state |-> "ENDED", sessionId |-> recorded.id,
                          sessionDurationMs |-> Whole(0)]>>

(***************************************************************************)
(* Claims about the capability guard (checked under SpecGuard)             *)
(***************************************************************************)

IsGetCapability == last.op = "getCapability"
\* The last call of getCapability returned this result.
GuardResult == last.returned[1]

\* C25: getCapability(name) for a name that is not in the set declared when
\* the guard was created throws CapabilityNotDeclaredError, on every call,
\* without consulting the permission checker or invoking a factory, and for
\* a name in that set it does not throw that error; the guard's set never
\* changes, whatever the host does to the array it passed in.
C25_UndeclaredThrows ==
    /\ [](IsGetCapability /\ last.capability \notin declaredSet
            => /\ last.threw
               /\ last.error = "CapabilityNotDeclaredError"
               /\ last.invoked = <<>>)
    /\ [](IsGetCapability /\ last.capability \in declaredSet
            => last.error # "CapabilityNotDeclaredError")
    /\ [][declaredSet' = declaredSet]_vars

\* The host pushed a capability onto its array after the guard was created,
\* the game asked for it with a checker that grants it, and the call threw
\* CapabilityNotDeclaredError all the same.
C25_Witness ==
    /\ IsGetCapability
    /\ last.capability \in SetOf(declaredCapabilities) \ declaredSet
    /\ last.permission = Permission(TRUE, Undefined)
    /\ ~last.apiThrows
    /\ last.error = "CapabilityNotDeclaredError"

\* The last call asked for a declared capability, the checker answered, and
\* either it denied the capability or the real factory threw, while the
\* no-op factory did not throw.
FellBack ==
    /\ IsGetCapability
    /\ last.capability \in declaredSet
    /\ ~last.permission.threw
    /\ ~last.permission.granted \/ last.apiThrows
    /\ ~last.noOpThrows

\* C26: for a declared capability, whenever the runtime permission is denied
\* or the real factory throws, and the no-op factory succeeds, getCapability
\* returns without throwing a result with isAvailable false, the api the
\* no-op factory produced and a non-empty unavailableReason; on denial the
\* real factory is not invoked.
C26_Fallback ==
    FellBack
        => /\ ~last.threw
           /\ GuardResult.isAvailable = FALSE
           /\ GuardResult.api = ApiBy("noOpApiFactory", last.capability)
           /\ "unavailableReason" \in DOMAIN GuardResult
           /\ GuardResult.unavailableReason.t = "string"
           /\ GuardResult.unavailableReason.s # ""
           /\ ~last.permission.granted
                 => \A i \in DOMAIN last.invoked : last.invoked[i] # "apiFactory"

\* C27: getCapability never returns a capability object in an undefined
\* state.  Whenever it returns, api is the object one factory produced: the
\* real factory's exactly when isAvailable is true, which is exactly when
\* the permission was granted and the real factory did not throw, and the
\* no-op factory's otherwise; unavailableReason is present exactly when
\* isAvailable is false; and when the no-op factory throws on the fallback
\* path, getCapability throws and returns nothing.
C27_NoUndefinedState ==
    /\ IsGetCapability /\ ~last.threw
          => /\ Len(last.returned) = 1
             /\ GuardResult.isAvailable
                   <=> GuardResult.api = ApiBy("apiFactory", last.capability)
             /\ ~GuardResult.isAvailable
                   <=> GuardResult.api = ApiBy("noOpApiFactory", last.capability)
             /\ GuardResult.isAvailable
                   <=> last.permission.granted /\ ~last.apiThrows
             /\ last.invoked[Len(last.invoked)] = GuardResult.api.by
             /\ "unavailableReason" \in DOMAIN GuardResult
                   <=> ~GuardResult.isAvailable
    /\ (/\ IsGetCapability
        /\ last.capability \in declaredSet
        /\ ~last.permission.threw
        /\ ~last.permission.granted \/ last.apiThrows
        /\ last.noOpThrows)
          => /\ last.threw
             /\ last.returned = <<>>

\* The permission was granted, the real factory threw, the no-op factory
\* threw as well, and getCapability threw its internal error.
C27_Witness ==
    /\ IsGetCapability
    /\ last.capability \in declaredSet
    /\ ~last.permission.threw
    /\ last.permission.granted
    /\ last.apiThrows
    /\ last.noOpThrows
    /\ last.threw
    /\ last.error = "SDK internal error"
    /\ last.invoked = <<"checkPermission", "apiFactory", "noOpApiFactory">>

====
